---- MODULE Spec2Model ----
(***************************************************************************)
(* A model of src/pi_convergents.py: the continued-fraction coefficient    *)
(* generator (get_continued_fraction), the convergent builder              *)
(* (get_convergents) and the search (find_pi_approximation_to_d_digits).   *)
(*                                                                         *)
(* Python's float is IEEE-754 binary64: a 53-bit significand, round to     *)
(* nearest (ties to even), a smallest positive value 2^-1074, and float    *)
(* ** raising OverflowError from 2^1024 on.  The model keeps that format   *)
(* and its rounding at a reduced width (MantBits, TinyExp, MaxExp), so     *)
(* that rounding, exact-zero remainders, underflow of the tolerance and    *)
(* overflow of the power all happen within small integers.  A float is a   *)
(* pair <<n, d>>, the dyadic rational n/d in lowest terms.  Python's int   *)
(* is unbounded; the bounds below keep every integer of the model small.   *)
(*                                                                         *)
(* The module also models the bead-by-bead addition of the two abacus      *)
(* animations, animate_add of src/soroban.py and of src/soroban-gl.py: the *)
(* working digits and what drives the bead moves (the column loop with its *)
(* carry in the first, the work queue in the second).  Drawing, sleeping   *)
(* and the camera are left out; they read the digits and change nothing    *)
(* the addition reads.  The window of soroban-gl.py is taken to stay open: *)
(* closing it (QUIT, Escape) ends the program wherever the addition is.    *)
(* A list is a function on 0..n-1, as it is indexed in the source.         *)
(***************************************************************************)
EXTENDS Integers, Sequences, FiniteSets, TLC

(* ------------------------------ bounds -------------------------------- *)
\* significand bits of the model's float (53 in binary64)
MantBits == 6
\* the smallest positive float is 2^-TinyExp (2^-1074 in binary64)
TinyExp == 10
\* results from 2^MaxExp on are out of range (2^1024 in binary64): float ** int
\* raises OverflowError there, and float / float gives inf
MaxExp == 6
\* the powers k tried: 1..MaxK
MaxK == 4
\* the digit counts D tried: 1..MaxD
MaxD == 4
\* the longest coefficient list handed to the builder on its own
MaxLen == 4
\* coefficients handed to the builder on its own lie in -MaxCoef..MaxCoef
MaxCoef == 2
\* the rationals p/q handed to the generator on its own: p in 1..MaxNum
MaxNum == 8
\* ... and q in 1..MaxDen
MaxDen == 5
\* the max_terms handed to the generator on its own: 0..MaxTermsIn
MaxTermsIn == 5
\* the floats handed to the generator on its own: m / 2^e with m in 1..MaxMant
MaxMant == 7

\* the numbers a and b added on the abacus: 0..MaxAddend
MaxAddend == 99

(* ------------------------- program constants -------------------------- *)
\* math.pi, to more digits than any width the model uses
PiNum == 355
PiDen == 113
\* num_terms = 2
StartTerms == 2
\* if num_terms > 50
HardCeiling == 50
\* math.isclose's default rel_tol is 1e-9 (abs_tol is 0.0)
RelTolInv == 1000000000
\* the queue entry "pause" (the other entries are column numbers, all >= 0)
Pause == -1

VARIABLES
    precision,      \* significand bits of the floats in use (never reassigned)
    \* find_pi_approximation_to_d_digits
    pc, k, D, tolerance, target_value, num_terms, cf, convergents, result,
    \* get_continued_fraction
    gpc, x_num, x_den, max_terms, remainder, coefficients, terms_left,
    \* get_convergents
    bpc, cf_in, idx, p_prev2, p_prev1, q_prev2, q_prev1, emitted,
    \* animate_add of soroban.py and of soroban-gl.py: the arguments a and b
    arg_a, arg_b,
    \* animate_add of soroban.py
    tpc, digits, addend, pos, increments, carry,
    \* animate_add of soroban-gl.py: model.d, addin, queue
    model_d, addin, queue

searchVars == <<pc, k, D, tolerance, target_value, num_terms, cf, convergents, result>>
genVars == <<gpc, x_num, x_den, max_terms, remainder, coefficients, terms_left>>
buildVars == <<bpc, cf_in, idx, p_prev2, p_prev1, q_prev2, q_prev1, emitted>>
textVars == <<tpc, digits, addend, pos, increments, carry>>
glVars == <<model_d, addin, queue>>
abacusVars == <<arg_a, arg_b, textVars, glVars>>
vars == <<precision, searchVars, genVars, buildVars, abacusVars>>

(* ------------------------------ floats -------------------------------- *)
RECURSIVE Norm(_, _)
\* n/d in lowest terms, d a power of two
Norm(n, d) ==
    IF n = 0 THEN <<0, 1>>
    ELSE IF d > 1 /\ n % 2 = 0 THEN Norm(n \div 2, d \div 2)
    ELSE <<n, d>>

\* the integer nearest to num/den, ties to even
RoundHalfEven(num, den) ==
    LET q == num \div den
        r == num % den
    IN  IF 2 * r > den \/ (2 * r = den /\ q % 2 = 1) THEN q + 1 ELSE q

RECURSIVE CoarseExp(_, _, _)
\* the least j >= 0 for which num/den fits `precision` bits on the grid 2^j
CoarseExp(num, den, j) ==
    IF num \div (den * 2^j) < 2^precision THEN j ELSE CoarseExp(num, den, j + 1)

RECURSIVE FineExp(_, _, _)
\* the greatest j <= TinyExp for which num/den fits `precision` bits on the grid 2^-j
FineExp(num, den, j) ==
    IF j < TinyExp /\ (num * 2^(j + 1)) \div den < 2^precision
    THEN FineExp(num, den, j + 1)
    ELSE j

\* the float nearest to the rational num/den (num >= 0, den > 0)
Round(num, den) ==
    IF num \div den >= 2^(precision - 1)
    THEN LET j == CoarseExp(num, den, 0)
         IN  <<RoundHalfEven(num, den * 2^j) * 2^j, 1>>
    ELSE LET j == FineExp(num, den, 0)
         IN  Norm(RoundHalfEven(num * 2^j, den), 2^j)

\* math.floor(x)
Floor(x) == x[1] \div x[2]

\* remainder - a, for a = floor(remainder): exact in floating point
Frac(x) == Norm(x[1] % x[2], x[2])

\* p / q for integers p >= 0, q > 0: the correctly rounded quotient
FloatDiv(p, q) == Round(p, q)

\* x < y
Less(x, y) == x[1] * y[2] < y[1] * x[2]

\* abs(x - y)
AbsDiff(x, y) ==
    LET n == x[1] * y[2] - y[1] * x[2]
    IN  Round(IF n < 0 THEN -n ELSE n, x[2] * y[2])

\* math.isclose(f, 0): abs(f - 0) <= max(rel_tol * max(abs(f), 0), abs_tol)
\* with abs_tol = 0.0, which only f = 0.0 satisfies
IsCloseToZero(f) == f[1] <= f[1] \div RelTolInv

\* math.pi
Pi == Round(PiNum, PiDen)

\* the value that stands for a result out of range: float ** raising
\* OverflowError, float / float giving inf
Huge == <<0, 0>>

\* 1.0 / fractional_part: the rounded quotient, inf when that is out of range
Recip(f) ==
    LET r == Round(f[2], f[1])
    IN  IF r[1] \div r[2] >= 2^MaxExp THEN Huge ELSE r

RECURSIVE ExactPow(_, _)
\* x^n as an exact rational, for x >= 1; Huge once the integer part of a partial
\* power, times x, is out of range
ExactPow(x, n) ==
    IF n = 0 THEN <<1, 1>>
    ELSE LET r == ExactPow(x, n - 1)
         IN  IF r = Huge THEN Huge
             ELSE IF (r[1] \div r[2]) * x[1] >= 2^MaxExp * x[2] THEN Huge
             ELSE <<r[1] * x[1], r[2] * x[2]>>

\* x ** n for a float x >= 1 and an int n >= 1: the rounded power, or Huge
FloatPow(x, n) ==
    LET e == ExactPow(x, n)
    IN  IF e = Huge THEN Huge
        ELSE LET r == Round(e[1], e[2])
             IN  IF r[1] \div r[2] >= 2^MaxExp THEN Huge ELSE r

RECURSIVE RootExp(_, _, _)
\* the greatest t for which the n-th root of x >= 1 fits `precision` bits on the grid 2^-t
RootExp(x, n, t) ==
    IF t = 0 \/ x[1] < x[2] * 2^((precision - t) * n) THEN t
    ELSE RootExp(x, n, t - 1)

\* x ** (1 / n) for a float x >= 1 and an int n >= 1: the float nearest to the root
\* (the library's pow is taken as correctly rounded)
FloatRoot(x, n) ==
    LET t == RootExp(x, n, precision - 1)
        lo == CHOOSE m \in 0..(2^precision - 1) :
                /\ m^n * x[2] <= x[1] * 2^(t * n)
                /\ (m + 1)^n * x[2] > x[1] * 2^(t * n)
        mid == (2 * lo + 1)^n * x[2]
        two == x[1] * 2^((t + 1) * n)
    IN  Norm(IF mid < two \/ (mid = two /\ lo % 2 = 1) THEN lo + 1 ELSE lo, 2^t)

(* ------------------------- get_convergents ---------------------------- *)
\* a slip: the seeds of p and q exchanged
SeedSwapped == <<1, 0, 0, 1>>

\* p_prev2, p_prev1, q_prev2, q_prev1 before the first coefficient
Seed == <<0, 1, 1, 0>>

\* a slip: the two previous numerators exchanged
NextPSwapped(a, prev1, prev2) == a * prev2 + prev1

\* p = a * p_prev1 + p_prev2
NextP(a, prev1, prev2) == a * prev1 + prev2

\* a slip: the older denominator subtracted
NextQMinus(a, prev1, prev2) == a * prev1 - prev2

\* q = a * q_prev1 + q_prev2
NextQ(a, prev1, prev2) == a * prev1 + prev2

\* one pass of the for loop: the next convergent is computed, the state shifted,
\* and the convergent yielded
BuildStep ==
    /\ bpc = "loop"
    /\ idx <= Len(cf_in)
    /\ LET a == cf_in[idx]
           p == NextP(a, p_prev1, p_prev2)
           q == NextQ(a, q_prev1, q_prev2)
       IN  /\ p_prev2' = p_prev1
           /\ p_prev1' = p
           /\ q_prev2' = q_prev1
           /\ q_prev1' = q
           /\ emitted' = Append(emitted, <<p, q>>)
    /\ idx' = idx + 1
    /\ UNCHANGED <<abacusVars, precision, searchVars, genVars, bpc, cf_in>>

\* the generator object is exhausted
BuildExhausted == bpc = "loop" /\ idx > Len(cf_in)

\* get_convergents(c) is called: nothing has been consumed yet
BuildCall(c) ==
    /\ bpc' = "loop"
    /\ cf_in' = c
    /\ idx' = 1
    /\ p_prev2' = Seed[1]
    /\ p_prev1' = Seed[2]
    /\ q_prev2' = Seed[3]
    /\ q_prev1' = Seed[4]
    /\ emitted' = <<>>

(* ---------------------- get_continued_fraction ------------------------ *)
\* get_continued_fraction(x, max_terms=n) is called
GenCall(x, n) ==
    /\ gpc' = IF n > 0 THEN "loop" ELSE "return"
    /\ max_terms' = n
    /\ remainder' = x
    /\ coefficients' = <<>>
    /\ terms_left' = n

\* one pass of the for loop; math.floor(inf) raises OverflowError, which no
\* caller catches
GenStep ==
    /\ gpc = "loop"
    /\ IF remainder = Huge
       THEN /\ gpc' = "raised"
            /\ pc' = IF pc = "in_generator" THEN "raised" ELSE pc
            /\ UNCHANGED <<remainder, coefficients, terms_left>>
       ELSE LET a == Floor(remainder)
                fractional_part == Frac(remainder)
            IN  /\ coefficients' = Append(coefficients, a)
                /\ pc' = pc
                /\ IF IsCloseToZero(fractional_part)
                   THEN /\ gpc' = "return"
                        /\ UNCHANGED <<remainder, terms_left>>
                   ELSE /\ remainder' = Recip(fractional_part)
                        /\ terms_left' = terms_left - 1
                        /\ gpc' = IF terms_left > 1 THEN "loop" ELSE "return"
    /\ UNCHANGED <<abacusVars, precision, k, D, tolerance, target_value, num_terms, cf,
                   convergents, result, buildVars, x_num, x_den, max_terms>>

\* the caller's use of the two functions in turn, as in the demonstration of
\* __main__: cf = get_continued_fraction(x, max_terms), then get_convergents(cf)
Feed ==
    /\ pc = "idle"
    /\ gpc = "return"
    /\ bpc = "idle"
    /\ BuildCall(coefficients)
    /\ UNCHANGED <<abacusVars, precision, searchVars, genVars>>

(* ---------------- find_pi_approximation_to_d_digits ------------------- *)
\* tolerance = 10**(-D): the float nearest to 10^-D, 0.0 when it underflows
Tolerance(d) == Round(1, 10^d)

\* a slip: the first convergent taken, convergents[0]
FirstOf(cs) == cs[1]

\* convergents[-1]
LastOf(cs) == cs[Len(cs)]

\* pi_approx = (p / q) ** (1 / k)
PiApprox(p, q, n) == FloatRoot(FloatDiv(p, q), n)

\* error = abs(pi_approx - math.pi)
ErrorOf(approx) == AbsDiff(approx, Pi)

\* error < tolerance
Accurate(p, q, n, tol) == Less(ErrorOf(PiApprox(p, q, n)), tol)

\* a slip: the term bound raised by two
NextTermsTwo(n) == n + 2

\* num_terms += 1
NextTerms(n) == n + 1

\* the dictionary of a successful search
FoundResult(p, q, approx, error) ==
    [power_k |-> k, digits_D |-> D, convergent_p |-> p, convergent_q |-> q,
     pi_approximation |-> approx, error |-> error]

\* the dictionary of a failed search
NotFoundResult == [error |-> "Could not find a suitable approximation."]

\* the statements before the loop; math.pi ** k raises OverflowError when the
\* power is out of the float range
Begin ==
    /\ pc = "begin"
    /\ tolerance' = Tolerance(D)
    /\ LET t == FloatPow(Pi, k)
       IN  IF t = Huge
           THEN /\ pc' = "raised"
                /\ UNCHANGED <<target_value, num_terms>>
           ELSE /\ target_value' = t
                /\ num_terms' = StartTerms
                /\ pc' = "generate"
    /\ UNCHANGED <<abacusVars, precision, k, D, cf, convergents, result, genVars, buildVars>>

\* the top of the while loop: get_continued_fraction(target_value, max_terms=num_terms)
\* is called
Generate ==
    /\ pc = "generate"
    /\ GenCall(target_value, num_terms)
    /\ pc' = "in_generator"
    /\ UNCHANGED <<abacusVars, precision, k, D, tolerance, target_value, num_terms, cf,
                   convergents, result, x_num, x_den, buildVars>>

\* cf is assigned and get_convergents(cf) is called
GotCoefficients ==
    /\ pc = "in_generator"
    /\ gpc = "return"
    /\ cf' = coefficients
    /\ gpc' = "idle"
    /\ BuildCall(coefficients)
    /\ pc' = "in_builder"
    /\ UNCHANGED <<abacusVars, precision, k, D, tolerance, target_value, num_terms,
                   convergents, result, x_num, x_den, max_terms, remainder,
                   coefficients, terms_left>>

\* convergents = list(...) is complete; the rest of the loop body
Check ==
    /\ pc = "in_builder"
    /\ BuildExhausted
    /\ convergents' = emitted
    /\ bpc' = "idle"
    /\ IF Len(emitted) = 0
       THEN \* convergents[-1] raises IndexError
            /\ pc' = "raised"
            /\ UNCHANGED <<num_terms, result>>
       ELSE LET p == LastOf(emitted)[1]
                q == LastOf(emitted)[2]
            IN  IF q = 0
                THEN /\ num_terms' = NextTerms(num_terms)
                     /\ pc' = "generate"
                     /\ UNCHANGED result
                ELSE LET pi_approx == PiApprox(p, q, k)
                         error == ErrorOf(pi_approx)
                     IN  IF Less(error, tolerance)
                         THEN /\ result' = FoundResult(p, q, pi_approx, error)
                              /\ pc' = "found"
                              /\ UNCHANGED num_terms
                         ELSE /\ num_terms' = NextTerms(num_terms)
                              /\ IF num_terms' > HardCeiling
                                 THEN /\ result' = NotFoundResult
                                      /\ pc' = "notfound"
                                 ELSE /\ pc' = "generate"
                                      /\ UNCHANGED result
    /\ UNCHANGED <<abacusVars, precision, k, D, tolerance, target_value, cf, genVars,
                   cf_in, idx, p_prev2, p_prev1, q_prev2, q_prev1, emitted>>

(* ------------------------ the abacus animations ----------------------- *)
RECURSIVE StrLen(_)
\* len(str(n)) for n >= 0
StrLen(n) == IF n < 10 THEN 1 ELSE 1 + StrLen(n \div 10)

\* a slip: the abacus sized for the larger operand, not for the total
ColumnsOfOperands(x, y) == StrLen(IF x > y THEN x ELSE y)

\* width = len(str(total)), columns = len(str(total)), with total = a + b
Columns(x, y) == StrLen(x + y)

\* list(map(int, str(n).zfill(w))) for n >= 0 of at most w digits
ZFill(n, w) == [i \in 0..(w - 1) |-> (n \div 10^(w - 1 - i)) % 10]

\* digits[pos] += 1; if digits[pos] == 10: digits[pos] = 0 (soroban.py), and
\* Soroban.inc's self.d[col] += 1; if self.d[col] == 10: self.d[col] = 0
MoveBead(dd, c) == [dd EXCEPT ![c] = IF dd[c] + 1 = 10 THEN 0 ELSE dd[c] + 1]

\* whether that bead move overflows the column: carry = 1, and inc's carry = True
Overflows(dd, c) == dd[c] + 1 = 10

RECURSIVE BuildQueue(_, _)
\* for col in range(columns-1, -1, -1): queue.extend([col]*addin[col]);
\* queue.append("pause")
BuildQueue(ad, col) ==
    IF col < 0 THEN <<>>
    ELSE [i \in 1..ad[col] |-> col] \o <<Pause>> \o BuildQueue(ad, col - 1)

\* a slip: the carry increment is not queued
CarryLost(q, col) == q

\* queue.insert(0, "pause"); queue.insert(0, col-1)
PushCarry(q, col) == <<col - 1, Pause>> \o q

\* soroban.py: the top of a pass of the column loop
TextColumn ==
    /\ tpc = "column"
    /\ increments' = addend[pos] + carry
    /\ carry' = 0
    /\ tpc' = "bead"
    /\ UNCHANGED <<precision, searchVars, genVars, buildVars, arg_a, arg_b,
                   digits, addend, pos, glVars>>

\* soroban.py: one pass of the bead loop, one bead moved
TextBead ==
    /\ tpc = "bead"
    /\ increments > 0
    /\ digits' = MoveBead(digits, pos)
    /\ carry' = IF Overflows(digits, pos) THEN 1 ELSE carry
    /\ increments' = increments - 1
    /\ UNCHANGED <<precision, searchVars, genVars, buildVars, arg_a, arg_b,
                   tpc, addend, pos, glVars>>

\* soroban.py: the bead loop is over; the column loop goes one column to the
\* left, or ends after column 0
TextEndColumn ==
    /\ tpc = "bead"
    /\ increments = 0
    /\ IF pos > 0
       THEN pos' = pos - 1 /\ tpc' = "column"
       ELSE pos' = pos /\ tpc' = "done"
    /\ UNCHANGED <<precision, searchVars, genVars, buildVars, arg_a, arg_b,
                   digits, addend, increments, carry, glVars>>

\* soroban-gl.py: a frame that pops "pause"
GlPause ==
    /\ queue # <<>>
    /\ Head(queue) = Pause
    /\ queue' = Tail(queue)
    /\ UNCHANGED <<precision, searchVars, genVars, buildVars, arg_a, arg_b,
                   textVars, model_d, addin>>

\* soroban-gl.py: a frame that pops a column: model.inc(col), and on a carry with
\* col > 0 the carry increment goes to the front of the queue
GlInc ==
    /\ queue # <<>>
    /\ Head(queue) # Pause
    /\ LET col == Head(queue)
       IN  /\ model_d' = MoveBead(model_d, col)
           /\ queue' = IF Overflows(model_d, col) /\ col > 0
                       THEN PushCarry(Tail(queue), col)
                       ELSE Tail(queue)
    /\ UNCHANGED <<precision, searchVars, genVars, buildVars, arg_a, arg_b,
                   textVars, addin>>

(* --------------------------- specifications --------------------------- *)
SearchIdle ==
    /\ pc = "idle" /\ k = 1 /\ D = 1
    /\ tolerance = <<0, 1>> /\ target_value = <<0, 1>> /\ num_terms = 0
    /\ cf = <<>> /\ convergents = <<>> /\ result = <<>>

GenIdle ==
    /\ gpc = "idle" /\ x_num = 0 /\ x_den = 1 /\ max_terms = 0
    /\ remainder = <<0, 1>> /\ coefficients = <<>> /\ terms_left = 0

BuildIdle ==
    /\ bpc = "idle" /\ cf_in = <<>> /\ idx = 1
    /\ p_prev2 = Seed[1] /\ p_prev1 = Seed[2]
    /\ q_prev2 = Seed[3] /\ q_prev1 = Seed[4]
    /\ emitted = <<>>

AbacusIdle ==
    /\ arg_a = 0 /\ arg_b = 0
    /\ tpc = "idle" /\ digits = <<>> /\ addend = <<>>
    /\ pos = 0 /\ increments = 0 /\ carry = 0
    /\ model_d = <<>> /\ addin = <<>> /\ queue = <<>>

\* the search, for every k in 1..MaxK and D in 1..MaxD
Init ==
    /\ precision = MantBits
    /\ pc = "begin" /\ k \in 1..MaxK /\ D \in 1..MaxD
    /\ tolerance = <<0, 1>> /\ target_value = <<0, 1>> /\ num_terms = 0
    /\ cf = <<>> /\ convergents = <<>> /\ result = <<>>
    /\ GenIdle
    /\ BuildIdle
    /\ AbacusIdle

Next == Begin \/ Generate \/ GenStep \/ GotCoefficients \/ BuildStep \/ Check

Spec == Init /\ [][Next]_vars

\* the lists of coefficients the builder is tried on
CoefLists == UNION {[1..n -> (-MaxCoef)..MaxCoef] : n \in 0..MaxLen}

\* get_convergents on its own, for every list of CoefLists
InitBuilder ==
    /\ precision = MantBits
    /\ SearchIdle
    /\ GenIdle
    /\ bpc = "loop" /\ cf_in \in CoefLists /\ idx = 1
    /\ p_prev2 = Seed[1] /\ p_prev1 = Seed[2]
    /\ q_prev2 = Seed[3] /\ q_prev1 = Seed[4]
    /\ emitted = <<>>
    /\ AbacusIdle

NextBuilder == BuildStep

SpecBuilder == InitBuilder /\ [][NextBuilder]_vars

\* get_continued_fraction(p / q, max_terms) on its own, and get_convergents on
\* what it returns, for every p in 1..MaxNum, q in 1..MaxDen, max_terms in 0..MaxTermsIn
InitGen ==
    /\ precision = MantBits
    /\ SearchIdle
    /\ BuildIdle
    /\ x_num \in 1..MaxNum /\ x_den \in 1..MaxDen /\ max_terms \in 0..MaxTermsIn
    /\ gpc = IF max_terms > 0 THEN "loop" ELSE "return"
    /\ remainder = FloatDiv(x_num, x_den)
    /\ coefficients = <<>>
    /\ terms_left = max_terms
    /\ AbacusIdle

NextGen == GenStep \/ Feed \/ BuildStep

SpecGen == InitGen /\ [][NextGen]_vars

\* get_continued_fraction(x, max_terms) on its own, for every float x = m / 2^e
\* down to the smallest positive one, and max_terms in 1..MaxTermsIn
InitFloat ==
    /\ precision = MantBits
    /\ SearchIdle
    /\ BuildIdle
    /\ x_num \in 1..MaxMant /\ x_den \in {2^e : e \in 0..TinyExp}
    /\ max_terms \in 1..MaxTermsIn
    /\ gpc = "loop"
    /\ remainder = FloatDiv(x_num, x_den)
    /\ coefficients = <<>>
    /\ terms_left = max_terms
    /\ AbacusIdle

NextFloat == GenStep

SpecFloat == InitFloat /\ [][NextFloat]_vars

\* the two animations of a + b, for every a and b in 0..MaxAddend, each from the
\* state its set-up leaves
InitAbacus ==
    /\ precision = MantBits
    /\ SearchIdle
    /\ GenIdle
    /\ BuildIdle
    /\ arg_a \in 0..MaxAddend /\ arg_b \in 0..MaxAddend
    /\ digits = ZFill(arg_a, Columns(arg_a, arg_b))
    /\ addend = ZFill(arg_b, Columns(arg_a, arg_b))
    /\ carry = 0
    /\ pos = Columns(arg_a, arg_b) - 1
    /\ increments = 0
    /\ tpc = "column"
    /\ model_d = ZFill(arg_a, Columns(arg_a, arg_b))
    /\ addin = ZFill(arg_b, Columns(arg_a, arg_b))
    /\ queue = BuildQueue(addin, Columns(arg_a, arg_b) - 1)

\* soroban-gl.py is run once soroban.py has finished
GlRuns == tpc = "done"

\* the two programs share no state, so nothing is lost by running them one after
\* the other, and the state where both have finished holds both results
NextAbacus ==
    \/ TextColumn
    \/ TextBead
    \/ TextEndColumn
    \/ GlRuns /\ GlPause
    \/ GlRuns /\ GlInc

SpecAbacus == InitAbacus /\ [][NextAbacus]_vars

\* each program keeps running: the loops of soroban.py go on by themselves, and
\* a frame of soroban-gl.py pops the queue as soon as the clock has passed `last`
FairAbacus ==
    /\ SpecAbacus
    /\ WF_vars(TextColumn \/ TextBead \/ TextEndColumn)
    /\ WF_vars(GlRuns /\ (GlPause \/ GlInc))

(* ------------------------------- claims ------------------------------- *)
RECURSIVE GCD(_, _)
GCD(a, b) == IF b = 0 THEN a ELSE GCD(b, a % b)

Abs(n) == IF n < 0 THEN -n ELSE n

RECURSIVE EuclidSteps(_, _)
\* the number of division steps of the Euclidean algorithm on (p, q)
EuclidSteps(p, q) == IF p % q = 0 THEN 1 ELSE 1 + EuclidSteps(q, p % q)

\* continued-fraction normal form: every coefficient after the first is >= 1
ValidCoefs(c) == \A i \in 2..Len(c) : c[i] >= 1

\* C1: when the search returns Found with (p, q), no convergent of the run with a
\* smaller denominator, the first convergent floor(constant^k)/1 included, also
\* meets the accuracy criterion.
C1_SmallestDenominator ==
    pc = "found" =>
        \A i \in 1..Len(convergents) :
            convergents[i][2] < result.convergent_q =>
                ~ (/\ convergents[i][2] > 0
                   /\ Accurate(convergents[i][1], convergents[i][2], k, tolerance))

\* C2: a Found result has q # 0, (p, q) is the last convergent of the coefficient
\* sequence generated for the current term bound, approximation = (p/q)^(1/k),
\* error = |approximation - constant| and error < 10^-D; no earlier convergent of
\* the run is the one returned.
C2_FoundIsLastConvergent ==
    pc = "found" =>
        LET p == result.convergent_p
            q == result.convergent_q
        IN  /\ q # 0
            /\ max_terms = num_terms
            /\ cf = coefficients
            /\ cf_in = cf
            /\ convergents = emitted
            /\ Len(convergents) = Len(cf)
            /\ Len(convergents) >= 1
            /\ Len(convergents) <= num_terms
            /\ <<p, q>> = convergents[Len(convergents)]
            /\ \A i \in 1..(Len(convergents) - 1) : convergents[i] # <<p, q>>
            /\ result.pi_approximation = FloatRoot(FloatDiv(p, q), k)
            /\ result.error = AbsDiff(result.pi_approximation, Pi)
            /\ Less(result.error, tolerance)

C2_Witness == pc = "found" /\ Len(convergents) >= 3

\* C3: for every k >= 1 and D >= 1 the search ends in Found or NotFound after a
\* bounded number of term bounds: it never crashes, never stops anywhere else,
\* and past the hard ceiling it has returned NotFound.
C3_SearchTerminates ==
    /\ pc # "raised"
    /\ num_terms <= HardCeiling + 1
    /\ (num_terms > HardCeiling => pc = "notfound")
    /\ (pc \notin {"found", "notfound"} => ENABLED Next)

\* C4: for a coefficient sequence in normal form, consecutive emitted convergents
\* satisfy p_{i+1} q_i - p_i q_{i+1} = +1 or -1, and each emitted convergent is in
\* lowest terms.
C4_Determinant ==
    ValidCoefs(cf_in) =>
        /\ \A i \in 1..(Len(emitted) - 1) :
              Abs(emitted[i + 1][1] * emitted[i][2] - emitted[i][1] * emitted[i + 1][2]) = 1
        /\ \A i \in 1..Len(emitted) :
              GCD(Abs(emitted[i][1]), Abs(emitted[i][2])) = 1

C4_Witness == ValidCoefs(cf_in) /\ Len(emitted) >= 4 /\ emitted[4][2] > 3

\* C5: for a coefficient sequence in normal form, the denominators q_0, q_1, ... of
\* the emitted convergents satisfy q_{i+1} > q_i for every i >= 1.
C5_DenominatorsIncrease ==
    ValidCoefs(cf_in) =>
        \A i \in 2..(Len(emitted) - 1) : emitted[i + 1][2] > emitted[i][2]

C5_Witness ==
    /\ ValidCoefs(cf_in)
    /\ Len(emitted) >= 4
    /\ emitted[1][2] = emitted[2][2]

C7_InvalidCoefficientRejected ==
    /\ \A i \in 2..Len(emitted) : cf_in[i] >= 1
    /\ (cf_in = <<>> => emitted = <<>>)

\* C8: for p/q in lowest terms and max_terms at least the number of Euclidean
\* steps on (p, q), the generator returns at most that many coefficients and the
\* last convergent built from them is exactly (p, q).
C8_RationalRoundTrip ==
    (/\ gpc = "return"
     /\ GCD(x_num, x_den) = 1
     /\ max_terms >= EuclidSteps(x_num, x_den))
    => /\ Len(coefficients) <= EuclidSteps(x_num, x_den)
       /\ (bpc = "loop" /\ idx > Len(cf_in) =>
              /\ Len(emitted) >= 1
              /\ emitted[Len(emitted)] = <<x_num, x_den>>)

\* the generator came back with fewer coefficients than the term bound: it
\* stopped on a fractional part of zero
StoppedEarly == Len(cf) < num_terms

\* the step that ends a term-bound attempt without success
FailedAttempt == pc = "in_builder" /\ pc' \notin {"in_builder", "found"}

C10_FoundOrNotFound ==
    pc \in {"found", "notfound", "raised"} =>
        \/ /\ pc = "found"
           /\ {"convergent_p", "convergent_q", "error"} \subseteq DOMAIN result
        \/ /\ pc = "notfound"
           /\ "convergent_p" \notin DOMAIN result
           /\ "error" \in DOMAIN result

\* the controller is inside its while loop, at some term bound
Searching == pc \in {"generate", "in_generator", "in_builder"}

\* C11: the controller enters its loop in Searching(T = 2, P0); from Searching(T,
\* precision) a step stays there, or leads to Found, to NotFound, to
\* Searching(T + 1, precision) or to Searching(T, precision + delta) and to
\* nothing else; T never decreases and grows by exactly 1 at every retry, the
\* retry after a q = 0 convergent included; Found and NotFound have no successor.
C11_StateMachine ==
    [][/\ (~ Searching /\ Searching') =>
              /\ pc = "begin"
              /\ pc' = "generate"
              /\ num_terms' = StartTerms
              /\ precision' = MantBits
       /\ Searching =>
              /\ pc' \in {"generate", "in_generator", "in_builder", "found", "notfound"}
              /\ \/ num_terms' = num_terms /\ precision' = precision
                 \/ num_terms' = num_terms + 1 /\ precision' = precision
                 \/ num_terms' = num_terms /\ precision' > precision
       /\ (Searching /\ num_terms' # num_terms) =>
              /\ pc = "in_builder"
              /\ pc' \in {"generate", "notfound"}
       /\ (pc = "in_builder" /\ pc' = "generate") => num_terms' = num_terms + 1
       /\ pc \notin {"found", "notfound"}]_vars

C11_Witness == pc = "found" /\ num_terms > StartTerms /\ Len(cf) = num_terms

\* C12: for every positive x and every max_terms >= 1 the generator returns a
\* coefficient sequence (it does not raise) whose length is between 1 and
\* max_terms, whose first coefficient is floor(x) and whose later coefficients
\* are all >= 1.
C12_NormalForm ==
    /\ gpc # "raised"
    /\ (gpc = "return" /\ max_terms >= 1) =>
           /\ Len(coefficients) >= 1
           /\ Len(coefficients) <= max_terms
           /\ coefficients[1] = Floor(FloatDiv(x_num, x_den))
           /\ ValidCoefs(coefficients)

\* list(map(int, str(a + b))): the decimal digits of the sum, len(str(a + b)) of them
SumDigits == ZFill(arg_a + arg_b, StrLen(arg_a + arg_b))

\* C13: for all a, b >= 0 both animations finish (the column loop of soroban.py
\* ends, the queue of soroban-gl.py becomes empty) and stay finished, each with
\* working digits equal to the decimal digits of a + b at width len(str(a + b)),
\* so that the two carry strategies end with the same digits.
C13_SameSum ==
    /\ [](tpc = "done" => digits = SumDigits)
    /\ [](queue = <<>> => model_d = SumDigits)
    /\ <>[](tpc = "done" /\ queue = <<>> /\ digits = model_d)

C13_Witness ==
    /\ tpc = "done"
    /\ queue = <<>>
    /\ Columns(arg_a, arg_b) = 3
    /\ arg_b < 10
    /\ digits = model_d

\* dd2 is dd with exactly one column moved by +1 modulo 10
OneBeadMoved(dd, dd2) ==
    /\ DOMAIN dd2 = DOMAIN dd
    /\ \E c \in DOMAIN dd : dd2 = [dd EXCEPT ![c] = (dd[c] + 1) % 10]

\* C14: in every state of either animation each working digit is in 0..9; each
\* bead move changes exactly one column by +1 modulo 10 and nothing else changes
\* the digits; no carry comes out of column 0: column 0 never overflows, the
\* column loop of soroban.py ends with carry = 0, and soroban-gl.py never pops
\* column 0 onto a 9.
C14_BeadMoves ==
    /\ [](/\ \A i \in DOMAIN digits : digits[i] \in 0..9
          /\ \A i \in DOMAIN model_d : model_d[i] \in 0..9
          /\ (tpc = "done" => carry = 0)
          /\ (tpc = "bead" /\ pos = 0 => carry = 0)
          /\ (queue # <<>> /\ Head(queue) = 0 => model_d[0] # 9))
    /\ [][/\ (increments' < increments) => OneBeadMoved(digits, digits')
          /\ (digits' # digits) => (increments' < increments)
          /\ (queue # <<>> /\ Head(queue) # Pause /\ queue' # queue)
                 => OneBeadMoved(model_d, model_d')
          /\ (model_d' # model_d)
                 => (queue # <<>> /\ Head(queue) # Pause /\ queue' # queue)
          /\ ~ (digits[0] = 9 /\ digits'[0] = 0)
          /\ ~ (model_d[0] = 9 /\ model_d'[0] = 0)]_vars

C14_Witness ==
    /\ tpc = "done"
    /\ queue # <<>>
    /\ StrLen(arg_a) < Columns(arg_a, arg_b)
    /\ StrLen(arg_b) < Columns(arg_a, arg_b)
    /\ digits[0] = 1
    /\ model_d[0] = 1

====
